---- MODULE Spec2Model ----
(***************************************************************************)
(* Operation-protocol engine of Inspector-Diffon: the protocol parser,     *)
(* the operations executor and the task ledger, with the command handlers  *)
(* that connect them.                                                      *)
(*                                                                         *)
(* Strings are sequences of one-character strings, paths are sequences of  *)
(* path segments, an operation is a record that has exactly the fields the *)
(* parser set (an absent field is JavaScript's undefined).                 *)
(***************************************************************************)
EXTENDS Integers, Sequences, FiniteSets, TLC

VARIABLES
  impl,       \* which OperationsExecutor source the extension was built with
  fs,         \* the file system: absolute path -> content, for existing files
  res,        \* record of the last executeAll call (NoRes when consumed)
  text,       \* parser specification: the text handed to parse
  blocks,     \* parser specification: the blocks the text is made of
  parsed,     \* parser specification: matches found by parse, in output order
  now,        \* Date.now()
  tasksDir,   \* .inspector-diff/tasks: task id -> persisted task record
  currentTask,\* TaskManager.currentTask (NoTask for null)
  git,        \* last version-control action sent and whether it succeeded
  ledgerLog,  \* per task id: applied lists handed over since the task was created
  last,       \* the last ledger request and what it returned
  procs       \* pending asynchronous command handlers

vars == <<impl, fs, res, text, blocks, parsed, now, tasksDir, currentTask, git,
          ledgerLog, last, procs>>

execVars   == <<impl, fs, res>>
parseVars  == <<text, blocks, parsed>>
ledgerVars == <<now, tasksDir, currentTask, git, ledgerLog, last>>

(***************************************************************************)
(* Bounds                                                                  *)
(***************************************************************************)
MaxBatch == 2
MaxBlocks == 4
MaxClock == 2
MaxOps == 2

(***************************************************************************)
(* Values of the variables when nothing is there                           *)
(***************************************************************************)
NoRes == [state |-> "idle"]
NoTask == [id |-> 0]
NoGit == [action |-> "none"]
NoLast == [request |-> "none"]

(***************************************************************************)
(* Strings                                                                 *)
(***************************************************************************)
StartsWith(s, t) == Len(t) <= Len(s) /\ SubSeq(s, 1, Len(t)) = t

\* String.prototype.includes
Includes(s, t) == \E i \in 1..(Len(s) + 1) : StartsWith(SubSeq(s, i, Len(s)), t)

RECURSIVE ReplaceEveryOverlapping(_, _, _)
\* a replacement at every position where search starts, overlaps included
ReplaceEveryOverlapping(s, t, r) ==
  IF s = <<>> THEN <<>>
  ELSE IF StartsWith(s, t) THEN r \o ReplaceEveryOverlapping(Tail(s), t, r)
  ELSE <<Head(s)>> \o ReplaceEveryOverlapping(Tail(s), t, r)

RECURSIVE ReplaceEvery(_, _, _)
\* content.split(search).join(replace), search non-empty
ReplaceEvery(s, t, r) ==
  IF s = <<>> THEN <<>>
  ELSE IF StartsWith(s, t) THEN r \o ReplaceEvery(SubSeq(s, Len(t) + 1, Len(s)), t, r)
  ELSE <<Head(s)>> \o ReplaceEvery(Tail(s), t, r)

RECURSIVE ReplaceFirst(_, _, _)
\* content.replace(search, replace) with a string pattern
ReplaceFirst(s, t, r) ==
  IF s = <<>> THEN <<>>
  ELSE IF StartsWith(s, t) THEN r \o SubSeq(s, Len(t) + 1, Len(s))
  ELSE <<Head(s)>> \o ReplaceFirst(Tail(s), t, r)

(***************************************************************************)
(* Paths                                                                   *)
(***************************************************************************)
workspaceRoot == <<"w">>

RECURSIVE Normalize(_, _)
\* path.resolve / path.join: ".." removes the last segment, "." is dropped
Normalize(abs, rel) ==
  IF rel = <<>> THEN abs
  ELSE IF Head(rel) = ".." THEN
         Normalize(IF abs = <<>> THEN <<>> ELSE SubSeq(abs, 1, Len(abs) - 1), Tail(rel))
  ELSE IF Head(rel) = "." THEN Normalize(abs, Tail(rel))
  ELSE Normalize(Append(abs, Head(rel)), Tail(rel))

\* resolved === root || resolved.startsWith(root + path.sep)
InsideRoot(abs) == StartsWith(abs, workspaceRoot)

(***************************************************************************)
(* File system primitives (fs.access, fs.writeFile, fs.unlink, fs.rename)  *)
(***************************************************************************)
Exists(f, p) == p \in DOMAIN f

WriteFile(f, p, c) == [q \in DOMAIN f \cup {p} |-> IF q = p THEN c ELSE f[q]]

Unlink(f, p) == [q \in DOMAIN f \ {p} |-> f[q]]

\* POSIX rename: an existing destination is replaced
RenameFile(f, a, b) ==
  IF a = b THEN f
  ELSE [q \in (DOMAIN f \ {a}) \cup {b} |-> IF q = b THEN f[a] ELSE f[q]]

(***************************************************************************)
(* Operations.  Has(op, k) is "op.k !== undefined"; Truthy(op, k) is the   *)
(* JavaScript truthiness of a string field (defined and not empty).        *)
(***************************************************************************)
Has(op, k) == k \in DOMAIN op

Truthy(op, k) == Has(op, k) /\ op[k] # <<>>

Thrown(f) == [ok |-> FALSE, fs |-> f]

Done(f) == [ok |-> TRUE, fs |-> f]

(***************************************************************************)
(* The three OperationsExecutor sources of the repository:                 *)
(*   "ext"    src/src/extension.ts                                         *)
(*   "lfirst" src/Inspector-Diff-lfirst/src/operations.ts                  *)
(*   "old"    src/src/operations.ts                                        *)
(***************************************************************************)
Impls == {"ext", "lfirst", "old"}

\* resolvePath / resolveSafe throw outside the root; the old executor joins
\* the path to the root and checks nothing
resolvePath(i, rel) ==
  LET resolved == Normalize(workspaceRoot, rel)
  IN  [ok |-> (i = "old") \/ InsideRoot(resolved), path |-> resolved]

create(i, f, op, answer) ==
  IF ~Truthy(op, "file") \/ ~Has(op, "content") THEN Thrown(f)
  ELSE LET r == resolvePath(i, op.file)
       IN  IF ~r.ok THEN Thrown(f)
           ELSE IF i = "ext"
                  \* the "already exists" error is thrown inside the try whose
                  \* catch swallows it: the write always happens
                  THEN Done(WriteFile(f, r.path, op.content))
           ELSE IF Exists(f, r.path) /\ ~answer THEN Thrown(f)
           ELSE Done(WriteFile(f, r.path, op.content))

\* delete that takes a missing file for already deleted
deleteIdempotent(i, f, op) ==
  IF ~Truthy(op, "file") THEN Thrown(f)
  ELSE LET r == resolvePath(i, op.file)
       IN  IF ~r.ok THEN Thrown(f)
           ELSE IF ~Exists(f, r.path) THEN Done(f)
           ELSE Done(Unlink(f, r.path))

delete(i, f, op) ==
  IF ~Truthy(op, "file") THEN Thrown(f)
  ELSE LET r == resolvePath(i, op.file)
       IN  IF ~r.ok THEN Thrown(f)
           ELSE IF ~Exists(f, r.path) THEN Thrown(f)
           ELSE Done(Unlink(f, r.path))

rename(i, f, op) ==
  IF ~Truthy(op, "from") \/ ~Truthy(op, "to") THEN Thrown(f)
  ELSE LET a == resolvePath(i, op.from)
           b == resolvePath(i, op.to)
       IN  IF ~a.ok \/ ~b.ok THEN Thrown(f)
           ELSE IF ~Exists(f, a.path) THEN Thrown(f)
           \* in "ext" the "destination exists" error is swallowed by its own catch
           ELSE IF i # "ext" /\ Exists(f, b.path) THEN Thrown(f)
           ELSE Done(RenameFile(f, a.path, b.path))

\* searchReplace without the content.includes(op.search) test
searchReplaceUnchecked(i, f, op) ==
  IF ~Truthy(op, "file") \/ ~Truthy(op, "search") \/ ~Has(op, "replace") THEN Thrown(f)
  ELSE LET r == resolvePath(i, op.file)
       IN  IF ~r.ok THEN Thrown(f)
           ELSE IF ~Exists(f, r.path) THEN Thrown(f)
           ELSE IF i = "old"
                  THEN Done(WriteFile(f, r.path, ReplaceFirst(f[r.path], op.search, op.replace)))
           ELSE Done(WriteFile(f, r.path, ReplaceEvery(f[r.path], op.search, op.replace)))

searchReplace(i, f, op) ==
  IF ~Truthy(op, "file") \/ ~Truthy(op, "search") \/ ~Has(op, "replace") THEN Thrown(f)
  ELSE LET r == resolvePath(i, op.file)
       IN  IF ~r.ok THEN Thrown(f)
           ELSE IF ~Exists(f, r.path) THEN Thrown(f)
           ELSE IF ~Includes(f[r.path], op.search) THEN Thrown(f)
           ELSE IF i = "old"
                  THEN Done(WriteFile(f, r.path, ReplaceFirst(f[r.path], op.search, op.replace)))
           ELSE Done(WriteFile(f, r.path, ReplaceEvery(f[r.path], op.search, op.replace)))

\* an overwrite that writes the file whether or not it exists
overwriteCreating(i, f, op) ==
  IF ~Truthy(op, "file") \/ ~Has(op, "content") THEN Thrown(f)
  ELSE LET r == resolvePath(i, op.file)
       IN  IF ~r.ok THEN Thrown(f)
           ELSE Done(WriteFile(f, r.path, op.content))

overwrite(i, f, op) ==
  IF ~Truthy(op, "file") \/ ~Has(op, "content") THEN Thrown(f)
  ELSE LET r == resolvePath(i, op.file)
       IN  IF ~r.ok THEN Thrown(f)
           ELSE IF ~Exists(f, r.path) THEN Thrown(f)
           ELSE Done(WriteFile(f, r.path, op.content))

\* the switch of executeOperation; only "ext" has a case for overwrite, the
\* other two fall out of the switch and resolve without doing anything
executeOperation(i, f, op, answer) ==
  CASE op.type = "create" -> create(i, f, op, answer)
    [] op.type = "delete" -> delete(i, f, op)
    [] op.type = "rename" -> rename(i, f, op)
    [] op.type = "search-replace" -> searchReplace(i, f, op)
    [] op.type = "overwrite" -> IF i = "ext" THEN overwrite(i, f, op) ELSE Done(f)

\* the loop body with applied.push(op) moved after the try/catch
executeStepPushingAll(i, acc, op, answer) ==
  LET r == executeOperation(i, acc.fs, op, answer)
  IN  [fs |-> r.fs,
       success |-> IF r.ok THEN acc.success + 1 ELSE acc.success,
       errors |-> IF r.ok THEN acc.errors ELSE acc.errors + 1,
       applied |-> Append(acc.applied, op),
       trace |-> Append(acc.trace, [op |-> op, ok |-> r.ok, before |-> acc.fs, after |-> r.fs])]

\* one iteration of the for loop of executeAll: try { await executeOperation;
\* success++; applied.push(op) } catch { errors++ }
executeStep(i, acc, op, answer) ==
  LET r == executeOperation(i, acc.fs, op, answer)
  IN  [fs |-> r.fs,
       success |-> IF r.ok THEN acc.success + 1 ELSE acc.success,
       errors |-> IF r.ok THEN acc.errors ELSE acc.errors + 1,
       applied |-> IF r.ok THEN Append(acc.applied, op) ELSE acc.applied,
       trace |-> Append(acc.trace, [op |-> op, ok |-> r.ok, before |-> acc.fs, after |-> r.fs])]

RECURSIVE executeLoopAborting(_, _, _, _)
\* executeAll without the try/catch around executeOperation
executeLoopAborting(i, acc, ops, answers) ==
  IF ops = <<>> THEN acc
  ELSE LET n == executeStep(i, acc, Head(ops), Head(answers))
       IN  IF n.errors > acc.errors THEN n
           ELSE executeLoopAborting(i, n, Tail(ops), Tail(answers))

RECURSIVE executeLoop(_, _, _, _)
executeLoop(i, acc, ops, answers) ==
  IF ops = <<>> THEN acc
  ELSE executeLoop(i, executeStep(i, acc, Head(ops), Head(answers)), Tail(ops), Tail(answers))

\* executeAll(operations); answers[k] is what the user would answer to an
\* overwrite prompt shown while operation k runs
executeAll(i, f, ops, answers) ==
  executeLoop(i, [fs |-> f, success |-> 0, errors |-> 0, applied |-> <<>>,
                  trace |-> <<>>], ops, answers)

(***************************************************************************)
(* Protocol parser.  A text is a sequence of tokens, each on a line of its *)
(* own: the markers <<<CREATE: p>>>, <<<DELETE: p>>>, <<<RENAME: p -> q>>>,*)
(* <<<FILE: p>>>, <<<SEARCH>>>, <<<REPLACE>>>, <<<END>>>, and runs of      *)
(* other text.  A regular expression of the source is matched on tokens:   *)
(* [\s\S]*? reaches the first later token that lets the rest match.        *)
(***************************************************************************)
TokCreate(p) == [k |-> "CREATE", path |-> p]
TokDelete(p) == [k |-> "DELETE", path |-> p]
TokRename(p, q) == [k |-> "RENAME", from |-> p, to |-> q]
TokFile(p) == [k |-> "FILE", path |-> p]
TokSearch == [k |-> "SEARCH"]
TokReplace == [k |-> "REPLACE"]
TokEnd == [k |-> "END"]
TokText(s) == [k |-> "TEXT", s |-> s]
TokFence == [k |-> "FENCE"]

Whitespace == {" ", "\n"}

RECURSIVE TrimStart(_)
TrimStart(s) == IF s # <<>> /\ Head(s) \in Whitespace THEN TrimStart(Tail(s)) ELSE s

RECURSIVE TrimEnd(_)
TrimEnd(s) ==
  IF s # <<>> /\ s[Len(s)] \in Whitespace THEN TrimEnd(SubSeq(s, 1, Len(s) - 1)) ELSE s

\* String.prototype.trim
Trim(s) == TrimEnd(TrimStart(s))

\* the characters of a token; a marker inside a captured group is kept as
\* one opaque character
Chars(tok) ==
  IF tok.k = "TEXT" THEN tok.s
  ELSE IF tok.k = "FENCE" THEN <<"~~~">>
  ELSE <<"<<<" \o tok.k \o ">>>">>

RECURSIVE Between(_, _, _)
\* the characters strictly between token i and token j, lines joined by "\n"
Between(txt, i, j) ==
  IF i + 1 >= j THEN <<"\n">>
  ELSE <<"\n">> \o Chars(txt[i + 1]) \o Between(txt, i + 1, j)

Min(S) == CHOOSE x \in S : \A y \in S : x <= y

\* index of the first token of kind k at or after position from, 0 if none
NextOf(txt, k, from) ==
  LET S == {j \in from..Len(txt) : txt[j].k = k}
  IN  IF S = {} THEN 0 ELSE Min(S)

Blank(tok) == tok.k = "TEXT" /\ Trim(tok.s) = <<>>

RECURSIVE SkipBlank(_, _)
\* \s* after a marker: the position of the first token that is not blank text
SkipBlank(txt, from) ==
  IF from <= Len(txt) /\ Blank(txt[from]) THEN SkipBlank(txt, from + 1) ELSE from

RECURSIVE ScanCreate(_, _)
\* while ((m = CREATE_RE.exec(text))) ops.push({type: 'create', ...})
ScanCreate(txt, lastIndex) ==
  LET i == NextOf(txt, "CREATE", lastIndex)
      j == IF i = 0 THEN 0 ELSE NextOf(txt, "END", i + 1)
  IN  IF i = 0 \/ j = 0 THEN <<>>
      ELSE <<[op |-> [type |-> "create", file |-> txt[i].path,
                      content |-> Trim(Between(txt, i, j))],
              at |-> i, end |-> j]>> \o ScanCreate(txt, j + 1)

RECURSIVE ScanDelete(_, _)
ScanDelete(txt, lastIndex) ==
  LET i == NextOf(txt, "DELETE", lastIndex)
      j == IF i = 0 THEN 0 ELSE NextOf(txt, "END", i + 1)
  IN  IF i = 0 \/ j = 0 THEN <<>>
      ELSE <<[op |-> [type |-> "delete", file |-> txt[i].path],
              at |-> i, end |-> j]>> \o ScanDelete(txt, j + 1)

RECURSIVE ScanRename(_, _)
ScanRename(txt, lastIndex) ==
  LET i == NextOf(txt, "RENAME", lastIndex)
      j == IF i = 0 THEN 0 ELSE NextOf(txt, "END", i + 1)
  IN  IF i = 0 \/ j = 0 THEN <<>>
      ELSE <<[op |-> [type |-> "rename", from |-> txt[i].from, to |-> txt[i].to],
              at |-> i, end |-> j]>> \o ScanRename(txt, j + 1)

\* SR_RE at the FILE marker i: <<<SEARCH>>> right after it (white space
\* apart), then the first <<<REPLACE>>>, then the first <<<END>>>
MatchSR(txt, i) ==
  LET s == SkipBlank(txt, i + 1)
      r == IF s <= Len(txt) /\ txt[s].k = "SEARCH" THEN NextOf(txt, "REPLACE", s + 1) ELSE 0
      e == IF r = 0 THEN 0 ELSE NextOf(txt, "END", r + 1)
  IN  [ok |-> e # 0, s |-> s, r |-> r, e |-> e]

RECURSIVE ScanSR(_, _)
ScanSR(txt, lastIndex) ==
  LET S == {i \in lastIndex..Len(txt) : txt[i].k = "FILE" /\ MatchSR(txt, i).ok}
  IN  IF S = {} THEN <<>>
      ELSE LET i == Min(S)
               m == MatchSR(txt, i)
           IN  <<[op |-> [type |-> "search-replace", file |-> txt[i].path,
                          search |-> Trim(Between(txt, m.s, m.r)),
                          replace |-> Trim(Between(txt, m.r, m.e))],
                  at |-> i, end |-> m.e]>> \o ScanSR(txt, m.e + 1)

\* OVERWRITE_RE at the FILE marker i: the first <<<END>>>, with no
\* <<<SEARCH>>> before it
MatchOverwrite(txt, i) ==
  LET e == NextOf(txt, "END", i + 1)
  IN  [ok |-> e # 0 /\ \A j \in (i + 1)..(e - 1) : txt[j].k # "SEARCH", e |-> e]

RECURSIVE ScanOverwrite(_, _)
ScanOverwrite(txt, lastIndex) ==
  LET S == {i \in lastIndex..Len(txt) : txt[i].k = "FILE" /\ MatchOverwrite(txt, i).ok}
  IN  IF S = {} THEN <<>>
      ELSE LET i == Min(S)
               m == MatchOverwrite(txt, i)
           IN  <<[op |-> [type |-> "overwrite", file |-> txt[i].path,
                          content |-> Trim(Between(txt, i, m.e))],
                  at |-> i, end |-> m.e]>> \o ScanOverwrite(txt, m.e + 1)

\* OperationsParser.parse: one pass per kind, the passes appended one after
\* the other; only extension.ts has the overwrite pass.  Each element keeps
\* the position of its opening marker (RegExpExecArray.index).
parseMatches(i, txt) ==
  ScanCreate(txt, 1) \o ScanDelete(txt, 1) \o ScanRename(txt, 1) \o ScanSR(txt, 1)
    \o (IF i = "ext" THEN ScanOverwrite(txt, 1) ELSE <<>>)

parse(i, txt) == LET m == parseMatches(i, txt) IN [k \in 1..Len(m) |-> m[k].op]

(***************************************************************************)
(* Task ledger (TaskManager).  A task id is Date.now() at creation; the    *)
(* tasks directory holds one JSON file per id.  A Date is [date |-> ms],   *)
(* the string JSON makes of it is [iso |-> ms].                            *)
(***************************************************************************)
FindLimit == 100

NoDescription == <<>>

HasTask(t) == t.id # 0

\* JSON.stringify(task) followed by JSON.parse: a Date comes back as a string
toJSON(task) ==
  [task EXCEPT !.createdAt =
     [iso |-> IF "date" \in DOMAIN task.createdAt THEN task.createdAt.date
                                                   ELSE task.createdAt.iso]]

\* saveTask that leaves an existing file alone
saveTaskOnce(dir, task) ==
  [i \in DOMAIN dir \cup {task.id} |-> IF i \in DOMAIN dir THEN dir[i] ELSE toJSON(task)]

\* saveTask: writes <id>.json, replacing whatever the file held
saveTask(dir, task) ==
  [i \in DOMAIN dir \cup {task.id} |-> IF i = task.id THEN toJSON(task) ELSE dir[i]]

Max(S) == CHOOSE x \in S : \A y \in S : x >= y

RECURSIVE DescendingFrom(_, _)
\* the members of S that are at most k, largest first
DescendingFrom(S, k) ==
  IF k = 0 THEN <<>>
  ELSE (IF k \in S THEN <<k>> ELSE <<>>) \o DescendingFrom(S, k - 1)

\* readdirSync(...).sort().reverse() on the file names <id>.json (ids are
\* decimal strings of equal length, so the order is that of the numbers)
Descending(S) == IF S = {} THEN <<>> ELSE DescendingFrom(S, Max(S))

\* loadRecentTasks without the reverse() after the sort()
loadRecentTasksUnreversed(dir, count) ==
  LET files == Descending(DOMAIN dir)
      n == IF Len(files) < count THEN Len(files) ELSE count
  IN  [k \in 1..n |-> dir[files[Len(files) + 1 - k]]]

loadRecentTasks(dir, count) ==
  LET files == Descending(DOMAIN dir)
      n == IF Len(files) < count THEN Len(files) ELSE count
  IN  [k \in 1..n |-> dir[files[k]]]

\* tasks.find(t => t.name === name) || null
findTaskByName(dir, name) ==
  LET tasks == loadRecentTasks(dir, FindLimit)
      S == {k \in 1..Len(tasks) : tasks[k].name = name}
  IN  IF S = {} THEN NoTask ELSE tasks[Min(S)]

newTask(t, name, description) ==
  [id |-> t, name |-> name, description |-> description, createdAt |-> [date |-> t],
   operations |-> <<>>, status |-> "pending", affectedFiles |-> <<>>,
   includedFiles |-> <<>>]

\* startTask(name, description): [task, dir] after the call
startTask(dir, t, name, description) ==
  LET existing == findTaskByName(dir, name)
  IN  IF HasTask(existing)
        THEN IF description # NoDescription /\ existing.description = NoDescription
               THEN LET e == [existing EXCEPT !.description = description]
                    IN  [task |-> e, dir |-> saveTask(dir, e), created |-> FALSE]
               ELSE [task |-> existing, dir |-> dir, created |-> FALSE]
        ELSE LET n == newTask(t, name, description)
             IN  [task |-> n, dir |-> saveTask(dir, n), created |-> TRUE]

InSeq(x, s) == \E k \in 1..Len(s) : s[k] = x

PushNew(s, x) == IF InSeq(x, s) THEN s ELSE Append(s, x)

\* the loop of addIncludedFiles without its includes test
PushAll(s, xs) == s \o xs

RECURSIVE PushAllNew(_, _)
\* for (const file of filePaths) if (!list.includes(file)) list.push(file)
PushAllNew(s, xs) == IF xs = <<>> THEN s ELSE PushAllNew(PushNew(s, Head(xs)), Tail(xs))

\* the loop body of addOperations without the line for op.to
TrackOpWithoutTo(affected, op) ==
  LET a1 == IF Truthy(op, "file") THEN PushNew(affected, op.file) ELSE affected
  IN  IF Truthy(op, "from") THEN PushNew(a1, op.from) ELSE a1

\* the three ifs of the loop body of addOperations
TrackOp(affected, op) ==
  LET a1 == IF Truthy(op, "file") THEN PushNew(affected, op.file) ELSE affected
      a2 == IF Truthy(op, "from") THEN PushNew(a1, op.from) ELSE a1
  IN  IF Truthy(op, "to") THEN PushNew(a2, op.to) ELSE a2

RECURSIVE TrackOps(_, _)
TrackOps(affected, ops) ==
  IF ops = <<>> THEN affected ELSE TrackOps(TrackOp(affected, Head(ops)), Tail(ops))

\* addOperations assigning the new operations instead of pushing them
addOperationsReplacing(task, ops) ==
  [task EXCEPT !.operations = ops,
               !.affectedFiles = TrackOps(task.affectedFiles, ops),
               !.status = "applied"]

\* addOperations on the current task (the caller made sure there is one)
addOperations(task, ops) ==
  [task EXCEPT !.operations = task.operations \o ops,
               !.affectedFiles = TrackOps(task.affectedFiles, ops),
               !.status = "applied"]

addIncludedFiles(task, paths) ==
  [task EXCEPT !.includedFiles = PushAllNew(task.includedFiles, paths)]

\* the guard of commitTask and undoTask without its test of the status
CanFinishAnyStatus(task) == HasTask(task)

\* the guard of commitTask and undoTask
CanFinish(task) == HasTask(task) /\ task.status = "applied"

\* commitTask past its guard: the git commands are typed into a terminal,
\* then the status is set
commitTask(task, gitOk) == [task EXCEPT !.status = "committed"]

\* undoTask past its guard and the confirmed prompt
undoTask(task) == [task EXCEPT !.status = "undone"]

(***************************************************************************)
(* Inputs of the executor specification                                    *)
(***************************************************************************)
pathA == <<"a">>
pathB == <<"b">>
pathOut == <<"..", "o">>
pathOutDeep == <<"d", "..", "..", "o">>

RelPaths == {pathA, pathB, pathOut}

OpCreate(p, c) == [type |-> "create", file |-> p, content |-> c]
OpDelete(p) == [type |-> "delete", file |-> p]
OpRename(p, q) == [type |-> "rename", from |-> p, to |-> q]
OpSearchReplace(p, s, r) == [type |-> "search-replace", file |-> p, search |-> s, replace |-> r]
OpOverwrite(p, c) == [type |-> "overwrite", file |-> p, content |-> c]

\* FileOperation.type has 'overwrite' in extension.ts only
ExecOps(i) ==
  {OpCreate(p, <<"y">>) : p \in RelPaths}
    \cup {OpDelete(p) : p \in RelPaths \cup {pathOutDeep}}
    \cup {OpRename(pq[1], pq[2]) : pq \in {pq \in RelPaths \X RelPaths : pq[1] # pq[2]}}
    \cup {OpSearchReplace(p, <<"x">>, <<"y">>) : p \in RelPaths}
    \cup (IF i = "ext" THEN {OpOverwrite(p, <<"y">>) : p \in RelPaths} ELSE {})

BatchesOf(S, n) == UNION {[1..k -> S] : k \in 1..n}

\* answers matter to create only: the other operations get a fixed answer
AnswersFor(ops) ==
  {a \in [1..Len(ops) -> BOOLEAN] : \A k \in 1..Len(ops) : ops[k].type # "create" => a[k]}

InitFiles ==
  {f \in [{<<"w", "a">>, <<"w", "b">>, <<"o">>} -> {<<>>, <<"x", "x">>, <<"y">>}] :
     /\ f[<<"w", "a">>] \in {<<>>, <<"x", "x">>}
     /\ f[<<"w", "b">>] \in {<<>>, <<"y">>}
     /\ f[<<"o">>] \in {<<>>, <<"x", "x">>}}

\* a file system from a choice of contents: the empty choice is "no such file"
FilesOf(f) == [p \in {q \in DOMAIN f : f[q] # <<>>} |-> f[p]]


NotParsed == [done |-> FALSE]

InitParser == text = <<>> /\ blocks = <<>> /\ parsed = NotParsed

InitLedger ==
  /\ now = 1
  /\ tasksDir = <<>>
  /\ currentTask = NoTask
  /\ git = NoGit
  /\ ledgerLog = <<>>
  /\ last = NoLast

(***************************************************************************)
(* Executor specification: executeAll on any batch, from any file system   *)
(***************************************************************************)
InitExec ==
  /\ impl \in Impls
  /\ fs \in {FilesOf(f) : f \in InitFiles}
  /\ res = NoRes
  /\ InitParser
  /\ InitLedger
  /\ procs = <<>>

\* executeAll as its caller sees it: the old executor returns no applied list
ExecResult(i, ops, answers, before, r) ==
  LET common == [state |-> "returned", ops |-> ops, answers |-> answers, before |-> before,
                 success |-> r.success, errors |-> r.errors, trace |-> r.trace]
  IN  IF i = "old" THEN common
      ELSE [k \in DOMAIN common \cup {"applied"} |->
              IF k = "applied" THEN r.applied ELSE common[k]]

ExecuteAllCall ==
  /\ res = NoRes
  /\ \E ops \in BatchesOf(ExecOps(impl), MaxBatch) : \E answers \in AnswersFor(ops) :
       LET r == executeAll(impl, fs, ops, answers)
       IN  /\ fs' = r.fs
           /\ res' = ExecResult(impl, ops, answers, fs, r)
  /\ UNCHANGED <<impl, parseVars, ledgerVars, procs>>

ExecuteAllReturn ==
  /\ res # NoRes
  /\ res' = NoRes
  /\ UNCHANGED <<impl, fs, parseVars, ledgerVars, procs>>

NextExec == ExecuteAllCall \/ ExecuteAllReturn

SpecExec == InitExec /\ [][NextExec]_vars

(***************************************************************************)
(* Claims on the executor                                                  *)
(***************************************************************************)
PathFields == {"file", "from", "to"}

\* some path argument of op resolves outside workspaceRoot
EscapesRoot(op) ==
  \E k \in PathFields \cap DOMAIN op : ~InsideRoot(Normalize(workspaceRoot, op[k]))

Returned == res.state = "returned"

\* C1: an operation with a path argument that resolves outside workspaceRoot
\* is counted as an error, is not applied, and changes no file anywhere.
C1_EscapingOperationFailsAndTouchesNothing ==
  Returned =>
    \A k \in 1..Len(res.trace) :
      EscapesRoot(res.trace[k].op) =>
        ~res.trace[k].ok /\ res.trace[k].after = res.trace[k].before

\* C2: executeAll attempts every operation of the batch exactly once and in
\* order, whatever failed before, always returns, and success + errors = n.
C2_BatchRunsToCompletion ==
  Returned =>
    /\ Len(res.trace) = Len(res.ops)
    /\ \A k \in 1..Len(res.ops) : res.trace[k].op = res.ops[k]
    /\ res.success + res.errors = Len(res.ops)

\* a batch in which an operation failed and a later one succeeded
C2_Witness ==
  /\ Returned
  /\ \E j, k \in 1..Len(res.trace) : j < k /\ ~res.trace[j].ok /\ res.trace[k].ok
  /\ res.errors > 0 /\ res.success > 0

\* the entries of the trace of the returned batch
Steps == IF Returned THEN {res.trace[k] : k \in 1..Len(res.trace)} ELSE {}

\* the absolute path a path argument stands for
Target(p) == Normalize(workspaceRoot, p)

\* the operations of the trace entries that succeeded, in order
Succeeded(trace) ==
  LET oks == SelectSeq(trace, LAMBDA t : t.ok)
  IN  [k \in 1..Len(oks) |-> oks[k].op]

\* C11: the applied list returned by executeAll is the subsequence of the
\* input operations that succeeded, in input order, and has success elements.
C11_AppliedIsTheSucceededSubsequence ==
  (Returned /\ "applied" \in DOMAIN res) =>
    /\ res.applied = Succeeded(res.trace)
    /\ Len(res.applied) = res.success

\* a returned applied list that leaves out a failed operation of the batch
C11_Witness ==
  /\ Returned
  /\ "applied" \in DOMAIN res
  /\ Len(res.ops) = 2
  /\ Len(res.applied) = 1
  /\ ~res.trace[1].ok
  /\ res.applied[1] = res.ops[2]

\* C12: a rename whose destination exists is an error, is not applied, and
\* leaves the source and the destination as they were.
C12_RenameOntoExistingFails ==
  \A t \in Steps :
    (/\ t.op.type = "rename"
     /\ Exists(t.before, Target(t.op.from))
     /\ Exists(t.before, Target(t.op.to)))
      => ~t.ok /\ t.after = t.before

\* C13: a create on an existing target with the overwrite declined is an
\* error and leaves the file as it was; a create that succeeded found the
\* target absent or the overwrite accepted.
C13_DeclinedCreateFails ==
  Returned =>
    \A k \in 1..Len(res.trace) :
      LET t == res.trace[k]
      IN  t.op.type = "create" =>
            /\ (Exists(t.before, Target(t.op.file)) /\ ~res.answers[k])
                 => ~t.ok /\ t.after = t.before
            /\ t.ok => (~Exists(t.before, Target(t.op.file)) \/ res.answers[k])

\* C14: a delete of an existing file of the workspace succeeds and removes
\* it; a delete of a missing file is an error that changes nothing, so the
\* same delete run again right after a successful one fails.
C14_DeleteIsNotIdempotent ==
  /\ \A t \in Steps :
       t.op.type = "delete" =>
         IF Exists(t.before, Target(t.op.file))
           THEN ~EscapesRoot(t.op) =>
                  /\ t.ok
                  /\ t.after = Unlink(t.before, Target(t.op.file))
                  /\ ~Exists(t.after, Target(t.op.file))
           ELSE ~t.ok /\ t.after = t.before
  /\ Returned =>
       \A k \in 1..(Len(res.trace) - 1) :
         (/\ res.trace[k].op.type = "delete"
          /\ res.trace[k].ok
          /\ res.trace[k + 1].op = res.trace[k].op)
           => ~res.trace[k + 1].ok /\ res.trace[k + 1].after = res.trace[k + 1].before

\* the same delete twice in one batch: one success, then one error
C14_Witness ==
  /\ Returned
  /\ Len(res.trace) = 2
  /\ res.trace[1].op.type = "delete"
  /\ res.trace[2].op = res.trace[1].op
  /\ res.trace[1].ok
  /\ ~res.trace[2].ok
  /\ res.success = 1 /\ res.errors = 1

\* C15: a search-replace that succeeded replaced every occurrence of the
\* search text (here one character by one character) and changed nothing
\* else, in the file or in other files.
C15_EveryOccurrenceReplaced ==
  \A t \in Steps :
    (t.op.type = "search-replace" /\ t.ok /\ Len(t.op.search) = 1 /\ Len(t.op.replace) = 1) =>
      LET p == Target(t.op.file)
      IN  /\ DOMAIN t.after = DOMAIN t.before
          /\ \A q \in DOMAIN t.before \ {p} : t.after[q] = t.before[q]
          /\ Len(t.after[p]) = Len(t.before[p])
          /\ \A n \in 1..Len(t.before[p]) :
               t.after[p][n] = IF t.before[p][n] = t.op.search[1]
                                 THEN t.op.replace[1] ELSE t.before[p][n]

\* C16: a search-replace whose target is missing or does not hold the
\* search text is one error, no success, and changes no file.
C16_SearchNotFoundFails ==
  /\ \A t \in Steps :
       (/\ t.op.type = "search-replace"
        /\ \/ ~Exists(t.before, Target(t.op.file))
           \/ ~Includes(t.before[Target(t.op.file)], t.op.search))
         => ~t.ok /\ t.after = t.before
  /\ (Returned /\ Len(res.ops) = 1 /\ res.ops[1].type = "search-replace"
        /\ res.trace[1].after = res.trace[1].before /\ ~res.trace[1].ok)
       => res.success = 0 /\ res.errors = 1

\* a search-replace on an existing file that does not hold the search text
C16_Witness ==
  /\ Returned
  /\ Len(res.ops) = 1
  /\ res.ops[1].type = "search-replace"
  /\ Exists(res.before, Target(res.ops[1].file))
  /\ ~Includes(res.before[Target(res.ops[1].file)], res.ops[1].search)
  /\ res.success = 0 /\ res.errors = 1
  /\ fs = res.before

(***************************************************************************)
(* Parser specification: parse applied to a text made of blocks            *)
(***************************************************************************)
WellFormedBlocks ==
  { <<TokCreate(pathA), TokText(<<" ", "x", " ", "x", " ">>), TokEnd>>,
    <<TokDelete(pathA), TokEnd>>,
    <<TokRename(pathA, pathB), TokEnd>>,
    <<TokFile(pathA), TokSearch, TokText(<<"x">>), TokReplace, TokText(<<"y">>), TokEnd>>,
    <<TokFile(pathB), TokText(<<"y">>), TokEnd>> }

BrokenBlocks ==
  { <<TokText(<<" ", "x", " ">>)>>,
    <<TokEnd>>,
    <<TokCreate(pathB), TokText(<<"y">>)>>,
    <<TokFile(pathB), TokSearch, TokText(<<"x">>)>> }

Blocks == WellFormedBlocks \cup BrokenBlocks

RECURSIVE Flatten(_)
Flatten(bs) == IF bs = <<>> THEN <<>> ELSE Head(bs) \o Flatten(Tail(bs))

InitParse ==
  /\ impl \in Impls
  /\ blocks \in BatchesOf(Blocks, MaxBlocks)
  /\ text = Flatten(blocks)
  /\ parsed = NotParsed
  /\ fs = <<>>
  /\ res = NoRes
  /\ InitLedger
  /\ procs = <<>>

Parse ==
  /\ ~parsed.done
  /\ parsed' = [done |-> TRUE, matches |-> parseMatches(impl, text)]
  /\ UNCHANGED <<text, blocks, execVars, ledgerVars, procs>>

NextParse == Parse

SpecParse == InitParse /\ [][NextParse]_vars

(***************************************************************************)
(* Claims on the parser                                                    *)
(***************************************************************************)
\* C3: the operations are returned in the order in which their opening
\* markers occur in the text, whatever their kinds are.
C3_OutputInMarkerOrder ==
  parsed.done =>
    \A k \in 1..(Len(parsed.matches) - 1) : parsed.matches[k].at < parsed.matches[k + 1].at

\* the text without its broken blocks
WithoutBroken(bs) == Flatten(SelectSeq(bs, LAMBDA b : b \in WellFormedBlocks))

\* a block that opens with a marker and has no END
Unterminated(b) == b \in BrokenBlocks /\ Head(b).k \in {"CREATE", "FILE"}

Prose(b) == \A n \in 1..Len(b) : b[n].k = "TEXT"

\* an END standing alone after an unterminated block, with nothing but prose
\* in between, terminates it: the two are one block
JoinedByEnd(bs) ==
  \E j, k \in 1..Len(bs) :
    /\ j < k
    /\ Unterminated(bs[j])
    /\ bs[k] = <<TokEnd>>
    /\ \A m \in (j + 1)..(k - 1) : Prose(bs[m])

\* C20: a block that is malformed or lacks its END yields no operation, and
\* the operations parse returns are those it returns for the text without
\* the bad blocks.
C20_BrokenBlocksAreDropped ==
  (parsed.done /\ ~JoinedByEnd(blocks)) =>
    [k \in 1..Len(parsed.matches) |-> parsed.matches[k].op] = parse(impl, WithoutBroken(blocks))

(***************************************************************************)
(* Command handlers, each run from its start to its end (Spec): the task   *)
(* panel's start, endTask, addSelectedFiles, applyOperations and the       *)
(* commit and undo entries of showTaskActions.                             *)
(***************************************************************************)
\* the (name, description) pairs typed into the task panel
StartInputs == {<<"A", NoDescription>>, <<"B", <<"d">>>>}

Selections == {<<pathB, pathA>>}

\* const m = raw.match(/FENCE([\s\S]*?)FENCE/); const text = m ? m[1] : raw,
\* FENCE being three backticks
FenceInterior(raw) ==
  LET a == NextOf(raw, "FENCE", 1)
      b == IF a = 0 THEN 0 ELSE NextOf(raw, "FENCE", a + 1)
  IN  IF b = 0 THEN raw ELSE SubSeq(raw, a + 1, b - 1)

Raws ==
  { <<TokText(<<"x">>), TokFence, TokCreate(pathA), TokText(<<"y">>), TokEnd, TokFence>>,
    <<TokRename(pathA, pathB), TokEnd, TokDelete(pathOut), TokEnd>>,
    <<TokText(<<"x">>)>> }

RECURSIVE SumOps(_, _)
SumOps(dir, ids) ==
  IF ids = {} THEN 0
  ELSE LET i == Min(ids) IN Len(dir[i].operations) + SumOps(dir, ids \ {i})

\* number of operations recorded in the tasks directory
TotalOps(dir) == SumOps(dir, DOMAIN dir)

\* the command registry that feeds the ledger (getTaskDir, result.applied)
\* is the one of the Inspector-Diff-lfirst sources
Init ==
  /\ impl = "lfirst"
  /\ fs = (<<"w", "a">> :> <<"x", "x">>) @@ (<<"o">> :> <<"x", "x">>)
  /\ res = NoRes
  /\ InitParser
  /\ InitLedger
  /\ procs = <<>>

Tick(limit) ==
  /\ now < limit
  /\ now' = now + 1
  /\ git' = NoGit
  /\ last' = [request |-> "none"]
  /\ UNCHANGED <<execVars, parseVars, tasksDir, currentTask, ledgerLog, procs>>

StartTask(inputs) ==
  \E in \in inputs :
    \E r \in {startTask(tasksDir, now, in[1], in[2])} :
      /\ currentTask' = r.task
      /\ tasksDir' = r.dir
      /\ ledgerLog' = IF r.created
                        THEN [i \in DOMAIN ledgerLog \cup {r.task.id} |->
                                IF i = r.task.id THEN <<>> ELSE ledgerLog[i]]
                        ELSE ledgerLog
      /\ last' = [request |-> "startTask", name |-> in[1], id |-> r.task.id,
                  created |-> r.created]
      /\ git' = NoGit
      /\ UNCHANGED <<execVars, parseVars, now, procs>>

EndTask ==
  /\ currentTask' = NoTask
  /\ last' = [request |-> "endTask"]
  /\ git' = NoGit
  /\ UNCHANGED <<execVars, parseVars, now, tasksDir, ledgerLog, procs>>

\* getNewFiles: selectedFiles.filter(f => !includedFiles.includes(f))
getNewFiles(task, selected) == SelectSeq(selected, LAMBDA f : ~InSeq(f, task.includedFiles))

AddSelectedFiles ==
  /\ HasTask(currentTask)
  /\ \E selected \in Selections :
       LET newRel == getNewFiles(currentTask, selected)
           t == addIncludedFiles(currentTask, newRel)
       IN  /\ newRel # <<>>
           /\ currentTask' = t
           /\ tasksDir' = saveTask(tasksDir, t)
           /\ last' = [request |-> "addIncludedFiles", id |-> t.id, paths |-> newRel]
  /\ git' = NoGit
  /\ UNCHANGED <<execVars, parseVars, now, ledgerLog, procs>>

\* "if (!ops.length) return": the request ends before the executor is made
NothingDone(f) == [fs |-> f, success |-> 0, errors |-> 0, applied |-> <<>>, trace |-> <<>>]

\* applyOperations from the task check to the end, nothing else in between
ApplyOperations ==
  /\ HasTask(currentTask)
  /\ \E raw \in Raws :
       \E ops \in {parse(impl, FenceInterior(raw))} :
         \E answers \in AnswersFor(ops) :
           \E r \in {IF ops = <<>> THEN NothingDone(fs)
                                   ELSE executeAll(impl, fs, ops, answers)} :
             \E t \in {IF r.applied # <<>> THEN addOperations(currentTask, r.applied)
                                           ELSE currentTask} :
               \E d \in {IF r.applied # <<>> THEN saveTask(tasksDir, t) ELSE tasksDir} :
                 /\ TotalOps(d) <= MaxOps
                 /\ fs' = r.fs
                 /\ currentTask' = t
                 /\ tasksDir' = d
                 /\ ledgerLog' = [ledgerLog EXCEPT ![t.id] = @ \o r.applied]
                 /\ last' = [request |-> "apply", id |-> t.id,
                             success |-> r.success, errors |-> r.errors]
  /\ git' = NoGit
  /\ UNCHANGED <<impl, res, parseVars, now, procs>>

\* showTaskActions, entry "commit": commitTask or its error message.  The
\* quick pick is awaited before commitTask is called, so the call can find
\* the task ended: commitTask then throws like for a wrong status.
CommitTask ==
  /\ IF CanFinish(currentTask)
       THEN \E gitOk \in BOOLEAN :
              LET t == commitTask(currentTask, gitOk)
              IN  /\ git' = [action |-> "commit", ok |-> gitOk]
                  /\ currentTask' = t
                  /\ tasksDir' = saveTask(tasksDir, t)
                  /\ last' = [request |-> "commitTask", id |-> t.id, error |-> FALSE]
       ELSE /\ last' = [request |-> "commitTask", id |-> currentTask.id, error |-> TRUE]
            /\ git' = NoGit
            /\ UNCHANGED <<currentTask, tasksDir>>
  /\ UNCHANGED <<execVars, parseVars, now, ledgerLog, procs>>

\* undoTask that does not wait for the answer to its prompt
UndoTaskWithoutPrompt ==
  /\ IF CanFinish(currentTask)
       THEN \E confirmed \in BOOLEAN, gitOk \in BOOLEAN :
              LET t == undoTask(currentTask)
              IN  /\ git' = [action |-> "reset", ok |-> gitOk]
                  /\ currentTask' = t
                  /\ tasksDir' = saveTask(tasksDir, t)
                  /\ last' = [request |-> "undoTask", id |-> t.id, error |-> FALSE,
                              confirmed |-> confirmed]
       ELSE /\ last' = [request |-> "undoTask", id |-> currentTask.id, error |-> TRUE,
                        confirmed |-> FALSE]
            /\ git' = NoGit
            /\ UNCHANGED <<currentTask, tasksDir>>
  /\ UNCHANGED <<execVars, parseVars, now, ledgerLog, procs>>

\* showTaskActions, entry "undo": undoTask with the user's answer to its prompt
UndoTask ==
  /\ IF CanFinish(currentTask)
       THEN \E confirmed \in BOOLEAN, gitOk \in BOOLEAN :
              IF confirmed
                THEN LET t == undoTask(currentTask)
                     IN  /\ git' = [action |-> "reset", ok |-> gitOk]
                         /\ currentTask' = t
                         /\ tasksDir' = saveTask(tasksDir, t)
                         /\ last' = [request |-> "undoTask", id |-> t.id, error |-> FALSE,
                                     confirmed |-> TRUE]
                ELSE /\ last' = [request |-> "undoTask", id |-> currentTask.id,
                                 error |-> FALSE, confirmed |-> FALSE]
                     /\ git' = NoGit
                     /\ UNCHANGED <<currentTask, tasksDir>>
       ELSE /\ last' = [request |-> "undoTask", id |-> currentTask.id, error |-> TRUE,
                        confirmed |-> FALSE]
            /\ git' = NoGit
            /\ UNCHANGED <<currentTask, tasksDir>>
  /\ UNCHANGED <<execVars, parseVars, now, ledgerLog, procs>>

Next ==
  \/ Tick(MaxClock)
  \/ StartTask(StartInputs)
  \/ EndTask
  \/ AddSelectedFiles
  \/ ApplyOperations
  \/ CommitTask
  \/ UndoTask

Spec == Init /\ [][Next]_vars

(***************************************************************************)
(* Claims on the ledger, command handlers run one after the other          *)
(***************************************************************************)
\* the records of one task before and after a step: same id, same name
SameTask(i) ==
  /\ i \in DOMAIN tasksDir
  /\ i \in DOMAIN tasksDir'
  /\ tasksDir[i].name = tasksDir'[i].name

\* C4: commitTask on an applied task sends the stage-and-commit action; the
\* status is committed only if the action succeeded, and stays applied when
\* it failed.
C4_CommittedOnlyOnSuccess ==
  git.action = "commit" =>
    /\ git.ok => currentTask.status = "committed"
    /\ ~git.ok => currentTask.status = "applied"

AllowedStatusChanges ==
  {<<"pending", "applied">>, <<"applied", "committed">>, <<"applied", "undone">>}

\* C5: every status change of a task is pending->applied, applied->committed
\* or applied->undone; a committed or undone task keeps its status.
C5_StatusStateMachine ==
  [][\A i \in DOMAIN tasksDir :
       (SameTask(i) /\ tasksDir[i].status # tasksDir'[i].status)
         => <<tasksDir[i].status, tasksDir'[i].status>> \in AllowedStatusChanges]_vars

OperationsAreAppliedLists ==
  /\ HasTask(currentTask) => currentTask.operations = ledgerLog[currentTask.id]
  /\ \A i \in DOMAIN tasksDir : tasksDir[i].operations = ledgerLog[i]

ZeroSuccessChangesNothing ==
  (last'.request = "apply" /\ last'.success = 0)
    => (currentTask' = currentTask /\ tasksDir' = tasksDir)

\* C6: the operations of a task are the applied lists returned by executeAll
\* for it, concatenated in order: failed operations never appear, earlier
\* entries stay, and a batch without a success leaves the task as it was.
C6_OperationsAppendOnlyFromApplied ==
  []OperationsAreAppliedLists /\ [][ZeroSuccessChangesNothing]_vars

\* a second batch, with a failure and a success, appended to the first
C6_Witness ==
  /\ last.request = "apply"
  /\ last.errors > 0
  /\ last.success > 0
  /\ HasTask(currentTask)
  /\ Len(currentTask.operations) = 2
  /\ tasksDir[currentTask.id].operations = currentTask.operations

\* C9: a task created by startTask is pending with empty operations,
\* affectedFiles and includedFiles, its id is that of no other persisted
\* task, and no persisted record is overwritten by the creation.
C9_NewTaskIsFreshAndUnique ==
  [][(last'.request = "startTask" /\ last'.created) =>
       /\ currentTask'.status = "pending"
       /\ currentTask'.operations = <<>>
       /\ currentTask'.affectedFiles = <<>>
       /\ currentTask'.includedFiles = <<>>
       /\ currentTask'.id \notin DOMAIN tasksDir
       /\ \A i \in DOMAIN tasksDir : tasksDir'[i] = tasksDir[i]]_vars

Range(s) == {s[k] : k \in 1..Len(s)}

\* the file, from and to paths of a list of operations
PathsOf(ops) == UNION {{ops[k][f] : f \in PathFields \cap DOMAIN ops[k]} : k \in 1..Len(ops)}

NoDuplicates(s) == \A j, k \in 1..Len(s) : s[j] = s[k] => j = k

AffectedFilesMatch(t) ==
  /\ Range(t.affectedFiles) = PathsOf(t.operations)
  /\ NoDuplicates(t.affectedFiles)

\* C10: affectedFiles is the set of the file, from and to paths of the
\* task's operations, without duplicates, and it never loses an element.
C10_AffectedFilesAreThePathsOfOperations ==
  /\ [](/\ HasTask(currentTask) => AffectedFilesMatch(currentTask)
        /\ \A i \in DOMAIN tasksDir : AffectedFilesMatch(tasksDir[i]))
  /\ [][\A i \in DOMAIN tasksDir :
          SameTask(i) => Range(tasksDir[i].affectedFiles) \subseteq Range(tasksDir'[i].affectedFiles)]_vars

\* a task with a rename and another operation on one of its paths
C10_Witness ==
  /\ HasTask(currentTask)
  /\ Len(currentTask.operations) = 2
  /\ \E k \in 1..2 : currentTask.operations[k].type = "rename"
  /\ Len(currentTask.affectedFiles) = 2

NotApplied(task) == ~HasTask(task) \/ task.status # "applied"

\* C17: commitTask and undoTask without a current task, or with one whose
\* status is not applied, raise an error, send no version-control action and
\* leave the task and its record as they were.
C17_FinishNeedsAppliedTask ==
  [][(last'.request \in {"commitTask", "undoTask"} /\ NotApplied(currentTask)) =>
       /\ last'.error
       /\ git' = NoGit
       /\ currentTask' = currentTask
       /\ tasksDir' = tasksDir]_vars

\* undoTask refused on a task that is still pending
C17_Witness ==
  /\ last.request = "undoTask"
  /\ last.error
  /\ HasTask(currentTask)
  /\ currentTask.status = "pending"
  /\ tasksDir[currentTask.id].status = "pending"
  /\ git = NoGit

\* some record, or the current task, has just become undone
BecomesUndone ==
  \/ HasTask(currentTask') /\ currentTask'.status = "undone"
       /\ (currentTask.id # currentTask'.id \/ currentTask.status # "undone")
       /\ tasksDir[currentTask'.id].status # "undone"
  \/ \E i \in DOMAIN tasksDir :
       SameTask(i) /\ tasksDir[i].status # "undone" /\ tasksDir'[i].status = "undone"

Reloaded(dir) ==
  LET tasks == loadRecentTasks(dir, Cardinality(DOMAIN dir))
  IN  {tasks[k] : k \in 1..Len(tasks)}

LedgerFields == {"operations", "affectedFiles", "includedFiles", "status"}

\* C19: after every ledger operation the task has exactly one persisted
\* record, under its id, and reloading it gives the operations,
\* affectedFiles, includedFiles and status of the task in memory; a ledger
\* operation writes no record but that of its task.
C19_RecordEqualsTaskInMemory ==
  /\ [](HasTask(currentTask) =>
          /\ Cardinality({r \in Reloaded(tasksDir) : r.id = currentTask.id}) = 1
          /\ \A r \in Reloaded(tasksDir) :
               r.id = currentTask.id =>
                 /\ r.name = currentTask.name
                 /\ \A f \in LedgerFields : r[f] = currentTask[f])
  /\ [][\A i \in DOMAIN tasksDir' :
          (i \notin DOMAIN tasksDir \/ tasksDir'[i] # tasksDir[i]) => i = currentTask'.id]_vars

\* a committed task with operations and included files, saved as it is
C19_Witness ==
  /\ HasTask(currentTask)
  /\ currentTask.status = "committed"
  /\ currentTask.operations # <<>>
  /\ currentTask.includedFiles # <<>>
  /\ "date" \in DOMAIN currentTask.createdAt
  /\ "iso" \in DOMAIN tasksDir[currentTask.id].createdAt
  /\ tasksDir[currentTask.id].status = "committed"
  /\ tasksDir[currentTask.id].includedFiles = currentTask.includedFiles

(***************************************************************************)
(* A long session (SpecMany): task "A" first, then one task name after the *)
(* other is typed into the task panel, one creation per clock tick, and    *)
(* "A" is asked for again at any time.                                     *)
(***************************************************************************)
MaxTicks == 102

\* the name typed at tick t for a task that is not "A"
OtherName(t) == "T" \o ToString(t)

ManyInputs ==
  {<<"A", NoDescription>>, <<"A", <<"d">>>>}
    \cup (IF now = 1 THEN {} ELSE {<<OtherName(now), NoDescription>>})

\* the clock moves on once the tick has its task
TickAfterCreation ==
  /\ now \in DOMAIN tasksDir
  /\ Tick(MaxTicks)

NextMany ==
  \/ TickAfterCreation
  \/ StartTask(ManyInputs)
  \/ EndTask

SpecMany == Init /\ [][NextMany]_vars

\* the ids of the persisted tasks with this name
Named(dir, name) == {i \in DOMAIN dir : dir[i].name = name}

\* C8: when a persisted task with the given name exists, startTask makes it
\* current and creates no record, however many other tasks were created in
\* between.
C8_StartTaskReusesByName ==
  [][(last'.request = "startTask" /\ Named(tasksDir, last'.name) # {}) =>
       /\ ~last'.created
       /\ currentTask'.id \in Named(tasksDir, last'.name)
       /\ DOMAIN tasksDir' = DOMAIN tasksDir]_vars

(***************************************************************************)
(* Requests in flight (SpecAsync): applyOperations is suspended at its     *)
(* clipboard read, and the handlers that change the current task run while *)
(* it waits.  procs holds the suspended requests, each with the id of the  *)
(* task it found current.                                                  *)
(***************************************************************************)
MaxRequests == 2

Remove(s, k) == SubSeq(s, 1, k - 1) \o SubSeq(s, k + 1, Len(s))

\* applyOperations up to "await vscode.env.clipboard.readText()"
ApplyBegin ==
  /\ HasTask(currentTask)
  /\ Len(procs) < MaxRequests
  /\ procs' = Append(procs, [began |-> currentTask.id])
  /\ last' = [request |-> "applyBegin", id |-> currentTask.id]
  /\ git' = NoGit
  /\ UNCHANGED <<execVars, parseVars, now, tasksDir, currentTask, ledgerLog>>

\* applyOperations from the clipboard's answer to its end: addOperations acts
\* on the task that is current now, and throws when there is none
ApplyFinish ==
  /\ \E k \in DOMAIN procs, raw \in Raws :
       \E ops \in {parse(impl, FenceInterior(raw))} :
         \E answers \in AnswersFor(ops) :
           \E r \in {IF ops = <<>> THEN NothingDone(fs)
                                   ELSE executeAll(impl, fs, ops, answers)} :
             \E record \in {r.applied # <<>> /\ HasTask(currentTask)} :
               \E t \in {IF record THEN addOperations(currentTask, r.applied)
                                   ELSE currentTask} :
                 \E d \in {IF record THEN saveTask(tasksDir, t) ELSE tasksDir} :
                   /\ TotalOps(d) <= MaxOps
                   /\ Len(ledgerLog[procs[k].began]) + Len(r.applied) <= MaxOps
                   /\ procs' = Remove(procs, k)
                   /\ fs' = r.fs
                   /\ currentTask' = t
                   /\ tasksDir' = d
                   /\ ledgerLog' = [ledgerLog EXCEPT ![procs[k].began] = @ \o r.applied]
                   /\ last' = [request |-> "apply", id |-> procs[k].began,
                               applied |-> r.applied,
                               thrown |-> (r.applied # <<>> /\ ~HasTask(currentTask))]
  /\ git' = NoGit
  /\ UNCHANGED <<impl, res, parseVars, now>>

NextAsync ==
  \/ Tick(MaxClock)
  \/ StartTask(StartInputs)
  \/ EndTask
  \/ ApplyBegin
  \/ ApplyFinish

SpecAsync == Init /\ [][NextAsync]_vars

\* C7: whatever runs while an apply request waits, the operations it applied
\* are appended once to the task that was current when it began, and the
\* operations of every other task stay as they were.
C7_AppliedOperationsReachTheirTask ==
  [][last'.request = "apply" =>
       /\ ~last'.thrown
       /\ tasksDir'[last'.id].operations = tasksDir[last'.id].operations \o last'.applied
       /\ \A i \in DOMAIN tasksDir \ {last'.id} :
            tasksDir'[i].operations = tasksDir[i].operations]_vars

(***************************************************************************)
(* The raw text of an apply request (SpecFence): fenced blocks, blocks     *)
(* outside a fence and prose, from which applyOperations takes the text it *)
(* hands to parse.                                                         *)
(***************************************************************************)
MaxSegments == 3

Fenced(b) == <<TokFence>> \o b \o <<TokFence>>

Segments ==
  { Fenced(<<TokCreate(pathA), TokText(<<"x">>), TokEnd>>),
    Fenced(<<TokDelete(pathA), TokEnd>>),
    <<TokRename(pathA, pathB), TokEnd>>,
    <<TokText(<<"x">>)>> }

InitFence ==
  /\ impl \in Impls
  /\ blocks \in BatchesOf(Segments, MaxSegments)
  /\ text = Flatten(blocks)
  /\ parsed = NotParsed
  /\ fs = <<>>
  /\ res = NoRes
  /\ InitLedger
  /\ procs = <<>>

\* applyOperations from raw.match to OperationsParser.parse
ExtractAndParse ==
  /\ ~parsed.done
  /\ \E target \in {FenceInterior(text)} :
       parsed' = [done |-> TRUE, target |-> target, matches |-> parseMatches(impl, target)]
  /\ UNCHANGED <<text, blocks, execVars, ledgerVars, procs>>

NextFence == ExtractAndParse

SpecFence == InitFence /\ [][NextFence]_vars

\* the positions of the fence delimiters of a raw text
FencesOf(raw) == {n \in 1..Len(raw) : raw[n] = TokFence}

\* C21: the text handed to parse is the interior of the fenced block when
\* the raw text has exactly one pair of fence delimiters, and the whole raw
\* text when it has none or more than one pair.
C21_FenceOnlyWhenSinglePair ==
  parsed.done =>
    parsed.target =
      IF Cardinality(FencesOf(text)) = 2
        THEN SubSeq(text, Min(FencesOf(text)) + 1, Max(FencesOf(text)) - 1)
        ELSE text

(***************************************************************************)
(* Files of the context (SpecFiles): addIncludedFiles called with any list *)
(* of paths, repeated paths included, on the current task.                 *)
(***************************************************************************)
MaxPaths == 2

pathC == <<"c">>

FilePaths == {pathA, pathB, pathC}

\* TaskManager.addIncludedFiles(filePaths), which throws without a task
AddIncludedFiles ==
  /\ \E paths \in BatchesOf(FilePaths, MaxPaths) :
       IF HasTask(currentTask)
         THEN \E t \in {addIncludedFiles(currentTask, paths)} :
                /\ currentTask' = t
                /\ tasksDir' = saveTask(tasksDir, t)
                /\ last' = [request |-> "addIncludedFiles", id |-> t.id, paths |-> paths,
                            error |-> FALSE]
         ELSE /\ last' = [request |-> "addIncludedFiles", id |-> 0, paths |-> paths,
                          error |-> TRUE]
              /\ UNCHANGED <<currentTask, tasksDir>>
  /\ git' = NoGit
  /\ UNCHANGED <<execVars, parseVars, now, ledgerLog, procs>>

NextFiles ==
  \/ StartTask({<<"A", NoDescription>>})
  \/ EndTask
  \/ AddIncludedFiles

SpecFiles == Init /\ [][NextFiles]_vars

\* the position of the first occurrence of x in s
FirstAt(s, x) == Min({n \in 1..Len(s) : s[n] = x})

\* C22: addIncludedFiles(paths) leaves includedFiles without duplicates and
\* equal to the union of what it held and paths, keeps what it held in its
\* order, appends the new paths in the order given, and a second call with
\* the same paths changes nothing.
C22_AddIncludedFilesIsAnOrderedUnion ==
  [][(last'.request = "addIncludedFiles" /\ ~last'.error) =>
       LET old == currentTask.includedFiles
           new == currentTask'.includedFiles
           paths == last'.paths
       IN  /\ NoDuplicates(new)
           /\ Range(new) = Range(old) \cup Range(paths)
           /\ Len(new) >= Len(old)
           /\ SubSeq(new, 1, Len(old)) = old
           /\ \A j, k \in (Len(old) + 1)..Len(new) :
                j < k => FirstAt(paths, new[j]) < FirstAt(paths, new[k])
           /\ addIncludedFiles(currentTask', paths) = currentTask'
           /\ tasksDir'[currentTask'.id].includedFiles = new]_vars

\* a call with a path already included and a new one, given twice
C22_Witness ==
  /\ last.request = "addIncludedFiles"
  /\ ~last.error
  /\ last.paths = <<pathB, pathB>>
  /\ HasTask(currentTask)
  /\ currentTask.includedFiles = <<pathC, pathA, pathB>>

(***************************************************************************)
(* The list of recent tasks (SpecRecent): tasks are created over a few     *)
(* clock ticks and loadRecentTasks is called with any count.               *)
(***************************************************************************)
MaxRecent == 4

RecentInputs == {<<"A", NoDescription>>, <<OtherName(now), NoDescription>>}

\* loadRecentTasks(count) as the task switcher calls it
LoadRecentTasks ==
  /\ \E count \in 0..(MaxRecent + 1) :
       last' = [request |-> "loadRecentTasks", count |-> count,
                result |-> loadRecentTasks(tasksDir, count)]
  /\ git' = NoGit
  /\ UNCHANGED <<execVars, parseVars, now, tasksDir, currentTask, ledgerLog, procs>>

NextRecent ==
  \/ Tick(MaxRecent)
  \/ StartTask(RecentInputs)
  \/ LoadRecentTasks

SpecRecent == Init /\ [][NextRecent]_vars

\* C23: loadRecentTasks(limit) returns at most limit tasks, each of them a
\* persisted task, from the most recently created to the oldest, and no
\* task left out was created after one that is returned.
C23_RecentTasksNewestFirst ==
  last.request = "loadRecentTasks" =>
    LET r == last.result
        ids == {r[k].id : k \in 1..Len(r)}
    IN  /\ Len(r) <= last.count
        /\ Len(r) = IF Cardinality(DOMAIN tasksDir) < last.count
                      THEN Cardinality(DOMAIN tasksDir) ELSE last.count
        /\ \A k \in 1..Len(r) : r[k].id \in DOMAIN tasksDir /\ r[k] = tasksDir[r[k].id]
        /\ \A j, k \in 1..Len(r) : j < k => r[j].createdAt.iso > r[k].createdAt.iso
        /\ \A i \in DOMAIN tasksDir \ ids :
             \A k \in 1..Len(r) : tasksDir[i].createdAt.iso < r[k].createdAt.iso

\* two of three persisted tasks returned, the newest first
C23_Witness ==
  /\ last.request = "loadRecentTasks"
  /\ last.count = 2
  /\ Cardinality(DOMAIN tasksDir) = 3
  /\ Len(last.result) = 2
  /\ last.result[1].id > last.result[2].id
  /\ \E i \in DOMAIN tasksDir : i < last.result[2].id

(***************************************************************************)
(* Search-replace there and back (SpecRoundTrip): on a file of any short   *)
(* content, a batch replaces search by replace and then replace by search. *)
(***************************************************************************)
MaxContent == 3

Letters == {"x", "y", "z"}

Contents == UNION {[1..n -> Letters] : n \in 1..MaxContent}

SearchTexts == {<<"x">>, <<"y">>, <<"x", "x">>, <<"x", "y">>}

InitRoundTrip ==
  /\ impl \in Impls
  /\ fs \in {(<<"w", "a">> :> c) : c \in Contents}
  /\ res = NoRes
  /\ InitParser
  /\ InitLedger
  /\ procs = <<>>

\* executeAll on a search-replace followed by its reverse
SearchReplaceBothWays ==
  /\ res = NoRes
  /\ Len(fs[Target(pathA)]) <= MaxContent
  /\ \E s \in SearchTexts : \E r \in SearchTexts \ {s} :
       \E ops \in {<<OpSearchReplace(pathA, s, r), OpSearchReplace(pathA, r, s)>>} :
         \E answers \in AnswersFor(ops) :
           \E e \in {executeAll(impl, fs, ops, answers)} :
             /\ fs' = e.fs
             /\ res' = ExecResult(impl, ops, answers, fs, e)
  /\ UNCHANGED <<impl, parseVars, ledgerVars, procs>>

NextRoundTrip == SearchReplaceBothWays \/ ExecuteAllReturn

SpecRoundTrip == InitRoundTrip /\ [][NextRoundTrip]_vars

\* the positions of content covered by an occurrence of t
Covered(content, t) ==
  {n \in 1..Len(content) :
     \E k \in 1..(Len(content) - Len(t) + 1) :
       /\ SubSeq(content, k, k + Len(t) - 1) = t
       /\ n \in k..(k + Len(t) - 1)}

\* the returned batch is a search-replace and its reverse, both succeeded
WentBothWays ==
  /\ Returned
  /\ Len(res.ops) = 2
  /\ res.ops[1].type = "search-replace"
  /\ res.ops[2] = OpSearchReplace(res.ops[1].file, res.ops[1].replace, res.ops[1].search)
  /\ res.trace[1].ok
  /\ res.trace[2].ok

Original == res.before[Target(res.ops[1].file)]

\* C24 as stated: when the occurrences of search and of replace in the
\* content do not overlap, search->replace followed by replace->search
\* gives the original content back.
C24_RoundTripWithoutOverlap ==
  (WentBothWays
     /\ Covered(Original, res.ops[1].search) \cap Covered(Original, res.ops[1].replace) = {})
    => fs[Target(res.ops[1].file)] = Original

\* C24, amended: when no character of replace occurs in the content,
\* search->replace followed by replace->search gives the original content
\* back.
C24_RoundTripWithoutReplaceInContent ==
  (WentBothWays /\ Range(res.ops[1].replace) \cap Range(Original) = {})
    => fs[Target(res.ops[1].file)] = Original

\* a content with overlapping occurrences of search and no character of
\* replace, restored
C24_Witness ==
  /\ WentBothWays
  /\ Original = <<"x", "x", "x">>
  /\ res.ops[1].search = <<"x", "x">>
  /\ res.ops[1].replace = <<"y">>
  /\ res.trace[1].after[Target(res.ops[1].file)] # Original
  /\ fs[Target(res.ops[1].file)] = Original

(***************************************************************************)
(* Overwrite, checked on SpecExec                                          *)
(***************************************************************************)
\* C25: an overwrite of a missing file is an error that creates no file and
\* changes nothing (one error for a batch of that operation alone); an
\* overwrite of an existing file of the workspace succeeds, leaves the file
\* with exactly the given content, and leaves every other file as it was.
C25_OverwriteNeedsExistingTarget ==
  /\ \A t \in Steps :
       t.op.type = "overwrite" =>
         IF Exists(t.before, Target(t.op.file))
           THEN ~EscapesRoot(t.op) =>
                  /\ t.ok
                  /\ t.after = WriteFile(t.before, Target(t.op.file), t.op.content)
                  /\ t.after[Target(t.op.file)] = t.op.content
                  /\ DOMAIN t.after = DOMAIN t.before
                  /\ \A p \in DOMAIN t.before \ {Target(t.op.file)} : t.after[p] = t.before[p]
           ELSE /\ ~t.ok
                /\ t.after = t.before
                /\ ~Exists(t.after, Target(t.op.file))
  /\ (Returned /\ Len(res.trace) = 1 /\ res.trace[1].op.type = "overwrite"
        /\ ~Exists(res.before, Target(res.trace[1].op.file)))
       => res.errors = 1 /\ res.success = 0

\* one batch with an overwrite of a missing file, which fails, and an
\* overwrite of an existing file, which changes its content
C25_Witness ==
  /\ Returned
  /\ Len(res.trace) = 2
  /\ res.trace[1].op = OpOverwrite(pathB, <<"y">>)
  /\ ~Exists(res.before, Target(pathB))
  /\ ~res.trace[1].ok
  /\ res.trace[2].op = OpOverwrite(pathA, <<"y">>)
  /\ Exists(res.before, Target(pathA))
  /\ res.before[Target(pathA)] = <<"x", "x">>
  /\ res.trace[2].ok
  /\ fs[Target(pathA)] = <<"y">>
  /\ ~Exists(fs, Target(pathB))
  /\ res.errors = 1 /\ res.success = 1

(***************************************************************************)
(* The CREATE pass, checked on SpecParse                                   *)
(***************************************************************************)
\* the position in the text of the first token of block k
StartOf(bs, k) == Len(Flatten(SubSeq(bs, 1, k - 1))) + 1

\* c is s without its leading and trailing white space, and nothing else
TrimmedOf(c, s) ==
  /\ \E a \in 0..Len(s) : \E b \in a..Len(s) :
       /\ c = SubSeq(s, a + 1, b)
       /\ \A n \in (1..a) \cup ((b + 1)..Len(s)) : s[n] \in Whitespace
  /\ c # <<>> => (c[1] \notin Whitespace /\ c[Len(c)] \notin Whitespace)

\* block k of bs is a well-formed CREATE block
CreateBlock(bs, k) == bs[k] \in WellFormedBlocks /\ Head(bs[k]).k = "CREATE"

\* parse gave, for block k, one create at its marker, with the marker's path
\* and the trimmed interior of the block
YieldsItsCreate(bs, k) ==
  LET at == StartOf(bs, k)
      end == at + Len(bs[k]) - 1
      found == {n \in 1..Len(parsed.matches) : parsed.matches[n].at = at}
  IN  /\ Cardinality({n \in found : parsed.matches[n].op.type = "create"}) = 1
      /\ \A n \in found :
           parsed.matches[n].op.type = "create" =>
             /\ parsed.matches[n].op.file = text[at].path
             /\ TrimmedOf(parsed.matches[n].op.content, Between(text, at, end))

\* C26: every well-formed CREATE block of the text yields a create whose
\* file is the path of its marker and whose content is the interior of the
\* block without its leading and trailing white space.
C26_CreateYieldsTrimmedInterior ==
  parsed.done => \A k \in 1..Len(blocks) : CreateBlock(blocks, k) => YieldsItsCreate(blocks, k)

\* C26 restricted to the CREATE blocks that no unterminated CREATE precedes:
\* there the create has the marker's path and the trimmed interior.
C26_CreateAfterTerminatedCreates ==
  parsed.done =>
    \A k \in 1..Len(blocks) :
      (CreateBlock(blocks, k)
         /\ \A j \in 1..(k - 1) : ~(Unterminated(blocks[j]) /\ Head(blocks[j]).k = "CREATE"))
        => YieldsItsCreate(blocks, k)

(***************************************************************************)
(* applyOperations with or without an open workspace folder (SpecRoot).    *)
(* The executor is constructed after the parse and before executeAll; its  *)
(* constructor reads vscode.workspace.workspaceFolders at that moment.     *)
(***************************************************************************)
\* a constructor that takes the root for granted
newOperationsExecutorUnchecked(folderOpen) == [ok |-> TRUE]

\* new OperationsExecutor(outputChannel): throws 'No workspace folder open'
\* when workspaceFolders has no first folder
newOperationsExecutor(folderOpen) == [ok |-> folderOpen]

\* applyOperations from the task check to the end; an exception of the
\* constructor leaves the handler at once
ApplyOperationsInFolder ==
  /\ HasTask(currentTask)
  /\ \E raw \in Raws, folderOpen \in BOOLEAN :
       \E ops \in {parse(impl, FenceInterior(raw))} :
         \E answers \in AnswersFor(ops) :
           \E thrown \in {ops # <<>> /\ ~newOperationsExecutor(folderOpen).ok} :
             \E r \in {IF ops = <<>> \/ thrown THEN NothingDone(fs)
                                                ELSE executeAll(impl, fs, ops, answers)} :
               \E t \in {IF r.applied # <<>> THEN addOperations(currentTask, r.applied)
                                             ELSE currentTask} :
                 \E d \in {IF r.applied # <<>> THEN saveTask(tasksDir, t) ELSE tasksDir} :
                   /\ TotalOps(d) <= MaxOps
                   /\ fs' = r.fs
                   /\ currentTask' = t
                   /\ tasksDir' = d
                   /\ ledgerLog' = [ledgerLog EXCEPT ![t.id] = @ \o r.applied]
                   /\ last' = [request |-> "apply", id |-> t.id, ops |-> ops,
                               folderOpen |-> folderOpen, thrown |-> thrown,
                               attempted |-> Len(r.trace),
                               success |-> r.success, errors |-> r.errors]
  /\ git' = NoGit
  /\ UNCHANGED <<impl, res, parseVars, now, procs>>

NextRoot ==
  \/ Tick(MaxClock)
  \/ StartTask(StartInputs)
  \/ EndTask
  \/ ApplyOperationsInFolder

SpecRoot == Init /\ [][NextRoot]_vars

\* C27: an apply request made while no workspace folder is open throws before
\* executeAll, when it has operations to run: no operation is attempted, no
\* file changes, and the current task and its record stay as they were.
C27_NoRootNothingRuns ==
  [][(last'.request = "apply" /\ ~last'.folderOpen) =>
       /\ last'.ops # <<>> => last'.thrown
       /\ last'.attempted = 0
       /\ fs' = fs
       /\ currentTask' = currentTask
       /\ tasksDir' = tasksDir
       /\ ledgerLog' = ledgerLog]_vars

\* a request with two operations thrown out for want of a folder, after a
\* request that did record an operation
C27_Witness ==
  /\ last.request = "apply"
  /\ ~last.folderOpen
  /\ last.thrown
  /\ Len(last.ops) = 2
  /\ HasTask(currentTask)
  /\ Len(currentTask.operations) = 1
  /\ tasksDir[currentTask.id].operations = currentTask.operations

(***************************************************************************)
(* Parsed operations against the executor's required-field checks          *)
(* (SpecFields): texts of blocks whose segments may be empty.              *)
(***************************************************************************)
MaxFieldBlocks == 2

FieldBlocks ==
  WellFormedBlocks \cup
    { <<TokCreate(pathA), TokEnd>>,
      <<TokFile(pathA), TokSearch, TokReplace, TokText(<<"y">>), TokEnd>>,
      <<TokFile(pathA), TokSearch, TokText(<<"x">>), TokReplace, TokEnd>> }

InitFields ==
  /\ impl \in Impls
  /\ blocks \in BatchesOf(FieldBlocks, MaxFieldBlocks)
  /\ text = Flatten(blocks)
  /\ parsed = NotParsed
  /\ fs = <<>>
  /\ res = NoRes
  /\ InitLedger
  /\ procs = <<>>

NextFields == Parse

SpecFields == InitFields /\ [][NextFields]_vars

\* the first statement of create, delete, rename, searchReplace and
\* overwrite: "if (!op.file || ...) throw new Error('... requires ...')"
requiredFieldsPresent(op) ==
  CASE op.type = "create" -> Truthy(op, "file") /\ Has(op, "content")
    [] op.type = "delete" -> Truthy(op, "file")
    [] op.type = "rename" -> Truthy(op, "from") /\ Truthy(op, "to")
    [] op.type = "search-replace" ->
         Truthy(op, "file") /\ Truthy(op, "search") /\ Has(op, "replace")
    [] op.type = "overwrite" -> Truthy(op, "file") /\ Has(op, "content")

\* the fields of each variant
VariantFields(type) ==
  CASE type = "create" -> {"file", "content"}
    [] type = "delete" -> {"file"}
    [] type = "rename" -> {"from", "to"}
    [] type = "search-replace" -> {"file", "search", "replace"}
    [] type = "overwrite" -> {"file", "content"}

\* C28: every operation parse returns has one variant tag and the fields of
\* that variant, and passes the required-field check of the executor.
C28_ParsedOperationsPassFieldChecks ==
  parsed.done =>
    \A n \in 1..Len(parsed.matches) :
      LET op == parsed.matches[n].op
      IN  /\ op.type \in {"create", "delete", "rename", "search-replace", "overwrite"}
          /\ DOMAIN op = VariantFields(op.type) \cup {"type"}
          /\ requiredFieldsPresent(op)

(***************************************************************************)
(* undoTask around its prompt (SpecUndo): the handler checks the current   *)
(* task, awaits showWarningMessage, and goes on with this.currentTask as   *)
(* it is when the answer comes.  Other commands run in between.            *)
(***************************************************************************)
MaxPrompts == 1

\* undoTask up to "await vscode.window.showWarningMessage(...)"
UndoBegin ==
  /\ Len(procs) < MaxPrompts
  /\ IF CanFinish(currentTask)
       THEN /\ procs' = Append(procs, [asked |-> currentTask.id])
            /\ last' = [request |-> "undoBegin", id |-> currentTask.id, error |-> FALSE]
       ELSE /\ procs' = procs
            /\ last' = [request |-> "undoBegin", id |-> currentTask.id, error |-> TRUE]
  /\ git' = NoGit
  /\ UNCHANGED <<execVars, parseVars, now, tasksDir, currentTask, ledgerLog>>

\* undoTask from the answer to its end: the reset is typed into the terminal,
\* then this.currentTask.status is set, which throws when there is no task
UndoFinish ==
  /\ \E k \in DOMAIN procs, confirmed \in BOOLEAN, gitOk \in BOOLEAN :
       /\ procs' = Remove(procs, k)
       /\ IF ~confirmed
            THEN /\ last' = [request |-> "undoFinish", asked |-> procs[k].asked,
                             confirmed |-> FALSE, thrown |-> FALSE]
                 /\ git' = NoGit
                 /\ UNCHANGED <<currentTask, tasksDir>>
            ELSE /\ git' = [action |-> "reset", ok |-> gitOk]
                 /\ last' = [request |-> "undoFinish", asked |-> procs[k].asked,
                             confirmed |-> TRUE, thrown |-> ~HasTask(currentTask)]
                 /\ IF HasTask(currentTask)
                      THEN \E t \in {undoTask(currentTask)} :
                             /\ currentTask' = t
                             /\ tasksDir' = saveTask(tasksDir, t)
                      ELSE UNCHANGED <<currentTask, tasksDir>>
  /\ UNCHANGED <<execVars, parseVars, now, ledgerLog>>

NextUndo ==
  \/ Tick(MaxClock)
  \/ StartTask(StartInputs)
  \/ EndTask
  \/ ApplyOperations
  \/ CommitTask
  \/ UndoBegin
  \/ UndoFinish

SpecUndo == Init /\ [][NextUndo]_vars

\* C29: a confirmed undo marks as undone only the task the prompt was about,
\* and only if that task is still applied when the answer comes.
C29_UndoMarksTheTaskAskedAbout ==
  [][\A i \in DOMAIN tasksDir :
       (tasksDir[i].status # "undone" /\ tasksDir'[i].status = "undone") =>
         /\ tasksDir[i].status = "applied"
         /\ last'.request = "undoFinish"
         /\ last'.asked = i]_vars

(***************************************************************************)
(* One operation per block, checked on SpecParse for the parser that has   *)
(* the overwrite pass                                                      *)
(***************************************************************************)
\* the operation type a well-formed block stands for
KindOf(b) ==
  CASE Head(b).k = "CREATE" -> "create"
    [] Head(b).k = "DELETE" -> "delete"
    [] Head(b).k = "RENAME" -> "rename"
    [] Head(b).k = "FILE" ->
         IF \E n \in 1..Len(b) : b[n].k = "SEARCH" THEN "search-replace" ELSE "overwrite"

WellFormedCount(bs) == Len(SelectSeq(bs, LAMBDA b : b \in WellFormedBlocks))

\* parse gave, for block k, one operation, of the block's kind
YieldsOneOperation(bs, k) ==
  LET found == {n \in 1..Len(parsed.matches) : parsed.matches[n].at = StartOf(bs, k)}
  IN  /\ Cardinality(found) = 1
      /\ \A n \in found : parsed.matches[n].op.type = KindOf(bs[k])

\* C30: every well-formed block yields one operation, a search-replace for a
\* FILE block with SEARCH and REPLACE and an overwrite for a FILE block
\* without SEARCH, and parse returns as many operations as the text has
\* well-formed blocks.
C30_OneOperationPerWellFormedBlock ==
  (parsed.done /\ impl = "ext" /\ ~JoinedByEnd(blocks)) =>
    /\ \A k \in 1..Len(blocks) :
         blocks[k] \in WellFormedBlocks => YieldsOneOperation(blocks, k)
    /\ Len(parsed.matches) = WellFormedCount(blocks)

\* C30 restricted to the texts made of well-formed blocks only: there each
\* block yields its one operation.
C30_OneOperationPerBlockOfCleanText ==
  (parsed.done /\ impl = "ext" /\ WellFormedCount(blocks) = Len(blocks)) =>
    /\ \A k \in 1..Len(blocks) : YieldsOneOperation(blocks, k)
    /\ Len(parsed.matches) = Len(blocks)

====
